---- MODULE Spec2Model ----
(***************************************************************************)
(* Model of the internship recommendation service: the SQLite store        *)
(* (database.py), the matching and ranking engine                          *)
(* (recommendation_engine.py), the profile model (models.py) and the       *)
(* request handlers that drive them (main.py).                             *)
(*                                                                         *)
(* Strings are TLA+ strings; Len, \o and SubSeq act on them character by   *)
(* character.  Scores are exact rationals [n, d] in lowest terms, so a     *)
(* score such as 2.8 / 4 is the rational 7/10.                             *)
(***************************************************************************)
EXTENDS Integers, Sequences, FiniteSets, TLC

VARIABLES internships, user_profiles, applications, ret

vars == <<internships, user_profiles, applications, ret>>

(***************************************************************************)
(* Bounds of the model.                                                    *)
(***************************************************************************)
\* add_internship calls after the seeding of the sample data
MaxAdded == 1
\* rows of the applications table
MaxApplications == 1
\* largest limit passed to get_recommendations
MaxLimit == 2

(***************************************************************************)
(* Rational arithmetic for the scores.                                     *)
(***************************************************************************)
RECURSIVE GCD(_, _)
GCD(a, b) == IF b = 0 THEN a ELSE GCD(b, a % b)

Abs(x) == IF x < 0 THEN -x ELSE x

\* the rational n/d (d > 0) in lowest terms
Frac(n, d) ==
    LET g == GCD(Abs(n), d)
    IN  [n |-> n \div g, d |-> d \div g]

RAdd(a, b) == Frac(a.n * b.d + b.n * a.d, a.d * b.d)
RMul(a, b) == Frac(a.n * b.n, a.d * b.d)
RLe(a, b) == a.n * b.d <= b.n * a.d
RLt(a, b) == a.n * b.d < b.n * a.d
RMin(a, b) == IF RLt(b, a) THEN b ELSE a
Zero == Frac(0, 1)
One == Frac(1, 1)

\* round(x, 0) for a rational x >= 0: nearest integer, ties to even
RoundHalfEven(x) ==
    LET q == x.n \div x.d
        r2 == 2 * (x.n % x.d)
    IN  IF r2 < x.d THEN q
        ELSE IF r2 > x.d THEN q + 1
        ELSE IF q % 2 = 0 THEN q ELSE q + 1

\* round(x, 1): x rounded to one decimal place
Round1(x) == Frac(RoundHalfEven(RMul(x, Frac(10, 1))), 10)

(***************************************************************************)
(* Python string methods.                                                  *)
(***************************************************************************)
LowerAlpha == "abcdefghijklmnopqrstuvwxyz"
UpperAlpha == "ABCDEFGHIJKLMNOPQRSTUVWXYZ"

CharAt(s, i) == SubSeq(s, i, i)

IsUpperChar(c) == \E i \in 1..26 : CharAt(UpperAlpha, i) = c
IsLowerChar(c) == \E i \in 1..26 : CharAt(LowerAlpha, i) = c
IsCased(c) == IsUpperChar(c) \/ IsLowerChar(c)

LowerChar(c) ==
    IF IsUpperChar(c)
    THEN CharAt(LowerAlpha, CHOOSE i \in 1..26 : CharAt(UpperAlpha, i) = c)
    ELSE c

UpperChar(c) ==
    IF IsLowerChar(c)
    THEN CharAt(UpperAlpha, CHOOSE i \in 1..26 : CharAt(LowerAlpha, i) = c)
    ELSE c

\* str.lower()
RECURSIVE Lower(_)
Lower(s) ==
    IF Len(s) = 0 THEN ""
    ELSE LowerChar(CharAt(s, 1)) \o Lower(SubSeq(s, 2, Len(s)))

IsSpace(c) == c = " "

RECURSIVE LStrip(_)
LStrip(s) ==
    IF Len(s) > 0 /\ IsSpace(CharAt(s, 1))
    THEN LStrip(SubSeq(s, 2, Len(s)))
    ELSE s

RECURSIVE RStrip(_)
RStrip(s) ==
    IF Len(s) > 0 /\ IsSpace(CharAt(s, Len(s)))
    THEN RStrip(SubSeq(s, 1, Len(s) - 1))
    ELSE s

\* str.strip()
Strip(s) == RStrip(LStrip(s))

\* str.title(): a cased character is upper-cased when it follows an uncased
\* one (or starts the string) and lower-cased otherwise
RECURSIVE TitleFrom(_, _)
TitleFrom(s, prevCased) ==
    IF Len(s) = 0 THEN ""
    ELSE LET c == CharAt(s, 1)
         IN  (IF prevCased THEN LowerChar(c) ELSE UpperChar(c))
                 \o TitleFrom(SubSeq(s, 2, Len(s)), IsCased(c))

Title(s) == TitleFrom(s, FALSE)

\* needle in hay
Contains(hay, needle) ==
    \E i \in 1..(Len(hay) - Len(needle) + 1) :
        SubSeq(hay, i, i + Len(needle) - 1) = needle

\* str.split(sep) for a one-character sep: empty fields are kept
RECURSIVE SplitFrom(_, _, _)
SplitFrom(s, sep, cur) ==
    IF Len(s) = 0 THEN <<cur>>
    ELSE IF CharAt(s, 1) = sep
         THEN <<cur>> \o SplitFrom(SubSeq(s, 2, Len(s)), sep, "")
         ELSE SplitFrom(SubSeq(s, 2, Len(s)), sep, cur \o CharAt(s, 1))

Split(s, sep) == SplitFrom(s, sep, "")

\* str.split(): fields between runs of whitespace, none empty
Words(s) == SelectSeq(Split(s, " "), LAMBDA w : Len(w) > 0)

\* sep.join(items)
RECURSIVE Join(_, _)
Join(items, sep) ==
    IF Len(items) = 0 THEN ""
    ELSE IF Len(items) = 1 THEN items[1]
    ELSE items[1] \o sep \o Join(Tail(items), sep)

\* items[:k]
Take(items, k) == SubSeq(items, 1, IF k < Len(items) THEN k ELSE Len(items))

\* s.lower().strip()
Norm(s) == Strip(Lower(s))

\* [x.lower().strip() for x in items]
NormAll(items) == [i \in 1..Len(items) |-> Norm(items[i])]

InSeq(x, items) == \E i \in 1..Len(items) : items[i] = x

(***************************************************************************)
(* models.py                                                               *)
(***************************************************************************)
\* class EducationLevel(str, Enum): each member has a name and a value
EducationLevel ==
    { [enum |-> TRUE, name |-> "HIGH_SCHOOL", value |-> "high_school"],
      [enum |-> TRUE, name |-> "DIPLOMA", value |-> "diploma"],
      [enum |-> TRUE, name |-> "UNDERGRADUATE", value |-> "undergraduate"],
      [enum |-> TRUE, name |-> "POSTGRADUATE", value |-> "postgraduate"] }

\* a plain str object, in the shape of the enum members
Plain(s) == [enum |-> FALSE, name |-> "", value |-> s]

\* str(x): a plain string is itself; a member of a (str, Enum) class prints
\* as ClassName.MEMBER_NAME
PyStr(x) == IF x.enum THEN "EducationLevel." \o x.name ELSE x.value

(***************************************************************************)
(* recommendation_engine.py: RecommendationEngine                          *)
(***************************************************************************)
\* self.skill_synonyms, in the order the dict literal lists its entries
skill_synonyms ==
    << [key |-> "programming", synonyms |-> <<"coding", "development", "software">>],
       [key |-> "python", synonyms |-> <<"django", "flask">>],
       [key |-> "javascript", synonyms |-> <<"js", "react", "node">>],
       [key |-> "design", synonyms |-> <<"graphic design", "ui", "ux", "visual">>],
       [key |-> "marketing", synonyms |-> <<"digital marketing", "social media">>],
       [key |-> "writing", synonyms |-> <<"content writing", "copywriting", "blogging">>],
       [key |-> "analysis", synonyms |-> <<"data analysis", "analytics", "research">>] >>

\* self.skill_synonyms.values()
SynonymGroups == [g \in 1..Len(skill_synonyms) |-> skill_synonyms[g].synonyms]

\* self.weights
weights ==
    [skills |-> Frac(4, 10), education |-> Frac(2, 10),
     location |-> Frac(2, 10), interests |-> Frac(2, 10)]

NoMatch == [score |-> Zero, matches |-> <<>>]

\* match_score += ...; matches.append(...): what a pass of a loop added, put
\* ahead of what the later passes add
Accumulate(here, rest) ==
    [score |-> RAdd(here.score, rest.score),
     matches |-> here.matches \o rest.matches]

\* the direct and partial loop over the required skills, from index j on:
\* the first required skill that equals the user skill adds 1, the first one
\* in a substring relation with it adds 0.7, and the loop stops there
RECURSIVE DirectMatch(_, _, _)
DirectMatch(user_skill, reqs, j) ==
    IF j > Len(reqs) THEN NoMatch
    ELSE IF user_skill = reqs[j]
         THEN [score |-> One, matches |-> <<Title(reqs[j])>>]
    ELSE IF Contains(reqs[j], user_skill) \/ Contains(user_skill, reqs[j])
         THEN [score |-> Frac(7, 10), matches |-> <<Title(reqs[j])>>]
    ELSE DirectMatch(user_skill, reqs, j + 1)

\* the first required skill, from index j on, that is in the group
RECURSIVE FirstInGroup(_, _, _)
FirstInGroup(group, reqs, j) ==
    IF j > Len(reqs) THEN NoMatch
    ELSE IF InSeq(reqs[j], group)
         THEN [score |-> Frac(8, 10), matches |-> <<Title(reqs[j])>>]
    ELSE FirstInGroup(group, reqs, j + 1)

\* whether the synonym loop considers the group for this user skill
GroupHolds(user_skill, g) == InSeq(user_skill, SynonymGroups[g])

\* a synonym loop that adds nothing
SynonymMatch_Skipped(user_skill, reqs, g) == NoMatch

\* the synonym loop over the groups, from group g on
RECURSIVE SynonymMatch(_, _, _)
SynonymMatch(user_skill, reqs, g) ==
    IF g > Len(SynonymGroups) THEN NoMatch
    ELSE Accumulate(IF GroupHolds(user_skill, g)
                    THEN FirstInGroup(SynonymGroups[g], reqs, 1)
                    ELSE NoMatch,
                    SynonymMatch(user_skill, reqs, g + 1))

\* one pass of the outer loop: what the two inner loops added for user_skill,
\* ahead of what the later passes add
SkillStep(user_skill, direct, syn, rest) ==
    [score |-> RAdd(RAdd(direct.score, syn.score), rest.score),
     matches |-> direct.matches \o syn.matches \o rest.matches,
     steps |-> <<[user_skill |-> user_skill,
                  direct |-> direct.score,
                  synonym |-> syn.score]>> \o rest.steps]

\* the outer loop over the user skills, from index k on; steps lists, for each
\* user skill, what its two inner loops added
RECURSIVE SkillLoop(_, _, _)
SkillLoop(users, reqs, k) ==
    IF k > Len(users) THEN [score |-> Zero, matches |-> <<>>, steps |-> <<>>]
    ELSE SkillStep(users[k],
                   DirectMatch(users[k], reqs, 1),
                   SynonymMatch(users[k], reqs, 1),
                   SkillLoop(users, reqs, k + 1))

\* a normalisation without the clamp to 1.0
NormalizeSkill_NoClamp(match_score, required_skills) ==
    IF Len(required_skills) > 0
    THEN RMul(match_score, Frac(1, Len(required_skills)))
    ELSE Zero

\* min(match_score / len(required_skills), 1.0), or 0 for an empty list
NormalizeSkill(match_score, required_skills) ==
    IF Len(required_skills) > 0
    THEN RMin(RMul(match_score, Frac(1, Len(required_skills))), One)
    ELSE Zero

\* return skill_score, matches: with what the loop left in match_score
SkillResult(raw, required_skills) ==
    [skill_score |-> NormalizeSkill(raw.score, required_skills),
     match_score |-> raw.score,
     steps |-> raw.steps,
     matches |-> raw.matches]

\* the loop runs on user_skills_lower and required_skills_lower
calculate_skill_match(user_skills, required_skills) ==
    SkillResult(SkillLoop(NormAll(user_skills), NormAll(required_skills), 1),
                required_skills)

\* a hierarchy that puts an unknown string at the lowest level
education_hierarchy_Lowest(s) ==
    CASE s = "high_school" -> 1
      [] s = "diploma" -> 2
      [] s = "undergraduate" -> 3
      [] s = "postgraduate" -> 4
      [] OTHER -> 1

\* education_hierarchy.get(s, 0)
education_hierarchy(s) ==
    CASE s = "high_school" -> 1
      [] s = "diploma" -> 2
      [] s = "undergraduate" -> 3
      [] s = "postgraduate" -> 4
      [] OTHER -> 0

\* tiers that give the full score only above the required level
EducationTier_Strict(user_level, required_level) ==
    IF user_level > required_level THEN One
    ELSE IF user_level = required_level - 1 THEN Frac(7, 10)
    ELSE Frac(3, 10)

\* the three tiers on the two levels
EducationTier(user_level, required_level) ==
    IF user_level >= required_level THEN One
    ELSE IF user_level = required_level - 1 THEN Frac(7, 10)
    ELSE Frac(3, 10)

calculate_education_match(user_education, required_education) ==
    LET user_level == education_hierarchy(Lower(PyStr(user_education)))
        required_level == education_hierarchy(Lower(required_education))
    IN  EducationTier(user_level, required_level)

\* the rules that follow the remote_option test
LocationRules(user_location_lower, preferred_lower, internship_location_lower) ==
    IF user_location_lower = internship_location_lower THEN One
    ELSE IF InSeq(internship_location_lower, preferred_lower) THEN Frac(9, 10)
    ELSE IF \E loc \in {user_location_lower}
                         \cup {preferred_lower[i] : i \in 1..Len(preferred_lower)} :
               \/ Contains(internship_location_lower, loc)
               \/ Contains(loc, internship_location_lower)
         THEN Frac(6, 10)
    ELSE Frac(2, 10)

\* a location match that never looks at remote_option
calculate_location_match_NoRemote(user_location, preferred_locations, internship_location, remote_option) ==
    LocationRules(Norm(user_location), NormAll(preferred_locations),
                  Norm(internship_location))

calculate_location_match(user_location, preferred_locations, internship_location, remote_option) ==
    IF remote_option THEN One
    ELSE LocationRules(Norm(user_location), NormAll(preferred_locations),
                       Norm(internship_location))

\* any(word in internship_text for word in words)
AnyWordIn(words, internship_text) ==
    \E w \in 1..Len(words) : Contains(internship_text, words[w])

\* one pass of the loop over the user interests
InterestStep(interest, internship_text) ==
    IF Contains(internship_text, interest)
    THEN [score |-> One, matches |-> <<Title(interest)>>]
    ELSE IF AnyWordIn(Words(interest), internship_text)
    THEN [score |-> Frac(7, 10), matches |-> <<Title(interest)>>]
    ELSE NoMatch

\* the loop over the user interests, from index k on
RECURSIVE InterestLoop(_, _, _)
InterestLoop(interests, internship_text, k) ==
    IF k > Len(interests) THEN NoMatch
    ELSE Accumulate(InterestStep(interests[k], internship_text),
                    InterestLoop(interests, internship_text, k + 1))

\* return interest_score, matches: with what the loop left in match_score
InterestResult(raw, user_interests) ==
    [interest_score |->
         IF Len(user_interests) > 0
         THEN RMin(RMul(raw.score, Frac(1, Len(user_interests))), One)
         ELSE Zero,
     matches |-> raw.matches]

\* the loop runs on user_interests_lower and internship_text
calculate_interest_match(user_interests, internship_sector, internship_title, internship_description) ==
    InterestResult(InterestLoop(NormAll(user_interests),
                                Lower(internship_sector \o " " \o internship_title
                                          \o " " \o internship_description),
                                1),
                   user_interests)

(***************************************************************************)
(* database.py: SQLiteDatabase.  The internships table is the sequence of  *)
(* its rows in insertion (rowid) order; user_profiles and applications are *)
(* sets of rows, one per primary key.                                      *)
(***************************************************************************)
Digits == "0123456789"

\* str(n) for n >= 0
RECURSIVE Str(_)
Str(n) ==
    IF n < 10 THEN CharAt(Digits, n + 1)
    ELSE Str(n \div 10) \o CharAt(Digits, (n % 10) + 1)

\* f"{n:03d}"
Pad3(n) ==
    LET t == Str(n)
    IN  IF Len(t) >= 3 THEN t
        ELSE IF Len(t) = 2 THEN "0" \o t
        ELSE "00" \o t

\* session_id = None
None == "<None>"

\* truth value of an optional string: None and "" are false
Truthy(s) == s # None /\ s # ""

\* INSERT OR REPLACE into a table kept in rowid order
InsertOrReplaceSeq(table, row) ==
    SelectSeq(table, LAMBDA r : r.id # row.id) \o <<row>>

\* the Internship built from a row of the internships table
Internship(row) ==
    [id |-> row.id,
     title |-> row.title,
     company |-> row.company,
     location |-> row.location,
     sector |-> row.sector,
     duration |-> row.duration,
     stipend |-> row.stipend,
     description |-> row.description,
     required_skills |-> Split(row.required_skills, ","),
     education_requirement |-> row.education_requirement,
     experience_required |-> row.experience_required,
     remote_option |-> (row.remote_option # 0),
     application_deadline |-> row.application_deadline]

\* SELECT * FROM internships
get_all_internships(table) == [i \in 1..Len(table) |-> Internship(table[i])]

HasInternship(table, internship_id) ==
    \E i \in 1..Len(table) : table[i].id = internship_id

\* SELECT * FROM internships WHERE id=?  (the caller tests HasInternship)
get_internship_by_id(table, internship_id) ==
    Internship(table[CHOOSE i \in 1..Len(table) : table[i].id = internship_id])

\* the row add_internship inserts for internship_data when the table holds
\* count rows
InternshipRow(internship_data, count) ==
    [id |-> "INT" \o Pad3(count + 1),
     title |-> internship_data.title,
     company |-> internship_data.company,
     location |-> internship_data.location,
     sector |-> internship_data.sector,
     duration |-> internship_data.duration,
     stipend |-> internship_data.stipend,
     description |-> internship_data.description,
     required_skills |-> Join(internship_data.required_skills, ","),
     education_requirement |-> internship_data.education_requirement,
     experience_required |-> internship_data.experience_required,
     remote_option |-> (IF internship_data.remote_option THEN 1 ELSE 0),
     application_deadline |-> internship_data.application_deadline]

\* the internships table after add_internship(internship_data)
AddedTo(table, internship_data) ==
    InsertOrReplaceSeq(table, InternshipRow(internship_data, Len(table)))

\* f"user_{profile_data['name']}_{len(profile_data['skills'])}"
SessionIdOf(profile_data) ==
    "user_" \o profile_data.name \o "_" \o Str(Len(profile_data.skills))

\* the row save_user_profile inserts
ProfileRow(profile_data) ==
    [session_id |-> SessionIdOf(profile_data),
     name |-> profile_data.name,
     age |-> profile_data.age,
     education_level |-> profile_data.education_level.value,
     field_of_study |-> profile_data.field_of_study,
     skills |-> Join(profile_data.skills, ","),
     interests |-> Join(profile_data.interests, ","),
     location |-> profile_data.location,
     preferred_locations |-> Join(profile_data.preferred_locations, ","),
     experience_level |-> profile_data.experience_level,
     language_preference |-> profile_data.language_preference]

\* INSERT OR REPLACE INTO user_profiles
SavedTo(table, profile_data) ==
    {r \in table : r.session_id # SessionIdOf(profile_data)}
        \cup {ProfileRow(profile_data)}

\* get_user_profile(session_id) is not None
HasProfile(table, session_id) == \E r \in table : r.session_id = session_id

\* f"APP{session_id}_{internship_id}"
ApplicationIdOf(session_id, internship_id) ==
    "APP" \o session_id \o "_" \o internship_id

ApplicationRow(session_id, internship_id) ==
    [application_id |-> ApplicationIdOf(session_id, internship_id),
     user_id |-> session_id,
     internship_id |-> internship_id,
     status |-> "Applied"]

\* INSERT OR REPLACE INTO applications
AppliedTo(table, session_id, internship_id) ==
    {r \in table : r.application_id # ApplicationIdOf(session_id, internship_id)}
        \cup {ApplicationRow(session_id, internship_id)}

\* SELECT * FROM applications WHERE user_id=?
get_applications_by_user(table, session_id) ==
    {r \in table : r.user_id = session_id}

(***************************************************************************)
(* recommendation_engine.py: get_recommendations                           *)
(***************************************************************************)
\* applied_ids: the internship ids of the user's applications, or nothing
\* when no session id is given
AppliedIds(apps, session_id) ==
    IF Truthy(session_id)
    THEN {r.internship_id : r \in get_applications_by_user(apps, session_id)}
    ELSE {}

\* a loop that never skips
Skipped_Never(internship, applied_ids) == FALSE

\* whether the loop skips the internship
Skipped(internship, applied_ids) == internship.id \in applied_ids

\* final_score: the weighted sum of the four scores
FinalScore(skill_score, education_score, location_score, interest_score) ==
    RAdd(RAdd(RAdd(RMul(skill_score, weights.skills),
                   RMul(education_score, weights.education)),
              RMul(location_score, weights.location)),
         RMul(interest_score, weights.interests))

\* a threshold test that also keeps a score of exactly 0.3
Kept_AtLeast(final_score) == RLe(Frac(3, 10), final_score)

\* the threshold test that keeps a scored internship
Kept(final_score) == RLt(Frac(3, 10), final_score)

\* round(final_score * 100, 1)
MatchScore(final_score) == Round1(RMul(final_score, Frac(100, 1)))

\* reasons that list every matched skill and interest
MatchReasons_AllListed(user_profile, internship, skill_matches, education_score, location_score, interest_matches) ==
    (IF Len(skill_matches) > 0
     THEN <<"Skills match: " \o Join(skill_matches, ", ")>>
     ELSE <<>>)
    \o (IF RLe(Frac(7, 10), education_score)
        THEN <<"Education requirement met">>
        ELSE <<>>)
    \o (IF RLe(Frac(9, 10), location_score)
        THEN <<IF internship.remote_option
               THEN "Remote work available"
               ELSE "Location matches preference">>
        ELSE <<>>)
    \o (IF Len(interest_matches) > 0
        THEN <<"Interests align: " \o Join(interest_matches, ", ")>>
        ELSE <<>>)
    \o (IF Lower(internship.experience_required) = Lower(user_profile.experience_level)
        THEN <<"Experience level perfect match">>
        ELSE <<>>)

\* match_reasons: the reasons appended in the order of the five tests
MatchReasons(user_profile, internship, skill_matches, education_score, location_score, interest_matches) ==
    (IF Len(skill_matches) > 0
     THEN <<"Skills match: " \o Join(Take(skill_matches, 3), ", ")>>
     ELSE <<>>)
    \o (IF RLe(Frac(7, 10), education_score)
        THEN <<"Education requirement met">>
        ELSE <<>>)
    \o (IF RLe(Frac(9, 10), location_score)
        THEN <<IF internship.remote_option
               THEN "Remote work available"
               ELSE "Location matches preference">>
        ELSE <<>>)
    \o (IF Len(interest_matches) > 0
        THEN <<"Interests align: " \o Join(Take(interest_matches, 2), ", ")>>
        ELSE <<>>)
    \o (IF Lower(internship.experience_required) = Lower(user_profile.experience_level)
        THEN <<"Experience level perfect match">>
        ELSE <<>>)

\* what the loop body computes from the four scores and final_score
ScoredWith(user_profile, internship, skill, education_score, location_score, interest, final_score) ==
    [internship |-> internship,
     skill_score |-> skill.skill_score,
     skill_raw |-> skill.match_score,
     skill_matches |-> skill.matches,
     education_score |-> education_score,
     location_score |-> location_score,
     interest_score |-> interest.interest_score,
     interest_matches |-> interest.matches,
     final_score |-> final_score,
     kept |-> Kept(final_score),
     match_score |-> MatchScore(final_score),
     match_reasons |->
         MatchReasons(user_profile, internship, skill.matches, education_score,
                      location_score, interest.matches)]

\* what the loop body computes from the four scores
ScoredFrom(user_profile, internship, skill, education_score, location_score, interest) ==
    ScoredWith(user_profile, internship, skill, education_score, location_score,
               interest,
               FinalScore(skill.skill_score, education_score, location_score,
                          interest.interest_score))

\* one pass of the loop body for an internship that is not skipped
Scored(user_profile, internship) ==
    ScoredFrom(user_profile, internship,
               calculate_skill_match(user_profile.skills,
                                     internship.required_skills),
               calculate_education_match(user_profile.education_level,
                                         internship.education_requirement),
               calculate_location_match(user_profile.location,
                                        user_profile.preferred_locations,
                                        internship.location,
                                        internship.remote_option),
               calculate_interest_match(user_profile.interests, internship.sector,
                                        internship.title, internship.description))

\* the Recommendation appended for a kept internship
Recommendation(sc) ==
    [internship |-> sc.internship,
     match_score |-> sc.match_score,
     match_reasons |-> sc.match_reasons]

(***************************************************************************)
(* The inputs the operations are called with.                              *)
(***************************************************************************)
\* sample_internships of load_sample_data
SampleInternships ==
    << [title |-> "Software Development Intern",
        company |-> "TechCorp India",
        location |-> "Bangalore",
        sector |-> "Technology",
        duration |-> "3 months",
        stipend |-> "15,000/month",
        description |-> "Work on web applications using Python and React",
        required_skills |-> <<"Python", "JavaScript", "React", "Database">>,
        education_requirement |-> "undergraduate",
        experience_required |-> "beginner",
        remote_option |-> TRUE,
        application_deadline |-> "2025-10-15"],
       [title |-> "Digital Marketing Intern",
        company |-> "Marketing Solutions Ltd",
        location |-> "Mumbai",
        sector |-> "Marketing",
        duration |-> "2 months",
        stipend |-> "12,000/month",
        description |-> "Assist in social media campaigns and content creation",
        required_skills |-> <<"Social Media", "Content Writing", "Analytics", "Communication">>,
        education_requirement |-> "undergraduate",
        experience_required |-> "beginner",
        remote_option |-> TRUE,
        application_deadline |-> "2025-10-20"] >>

\* a posting with no required skills
OfficePosting ==
    [title |-> "Office Intern",
     company |-> "Acme",
     location |-> "Pune",
     sector |-> "Admin",
     duration |-> "1 month",
     stipend |-> "",
     description |-> "Help the office",
     required_skills |-> <<>>,
     education_requirement |-> "diploma",
     experience_required |-> "beginner",
     remote_option |-> FALSE,
     application_deadline |-> "2025-11-01"]

\* a posting few profiles fit
AccountsPosting ==
    [title |-> "Accounts Intern",
     company |-> "Ledger and Co",
     location |-> "Delhi",
     sector |-> "Finance",
     duration |-> "6 months",
     stipend |-> "8,000/month",
     description |-> "Maintain ledgers",
     required_skills |-> <<"SQL", "Excel", "Tally">>,
     education_requirement |-> "postgraduate",
     experience_required |-> "intermediate",
     remote_option |-> FALSE,
     application_deadline |-> "2025-11-15"]

\* a posting with a single required skill, one of a synonym group
FrontendPosting ==
    [title |-> "Frontend Intern",
     company |-> "Pixel Works",
     location |-> "Mumbai",
     sector |-> "Technology",
     duration |-> "3 months",
     stipend |-> "10,000/month",
     description |-> "Build pages in React",
     required_skills |-> <<"React">>,
     education_requirement |-> "high_school",
     experience_required |-> "Beginner",
     remote_option |-> FALSE,
     application_deadline |-> "2025-12-01"]

\* the internship_data add_internship is called with
InternshipInputs == {OfficePosting, AccountsPosting, FrontendPosting}

Asha ==
    [name |-> "Asha",
     age |-> 20,
     education_level |-> [enum |-> TRUE, name |-> "UNDERGRADUATE", value |-> "undergraduate"],
     field_of_study |-> "Computer Science",
     skills |-> <<"python", "react">>,
     interests |-> <<"technology", "intern">>,
     location |-> "Pune",
     preferred_locations |-> <<"Mumbai">>,
     experience_level |-> "beginner",
     language_preference |-> "english"]

\* another person of the same name, with as many skills
AshaToo ==
    [name |-> "Asha",
     age |-> 27,
     education_level |-> [enum |-> TRUE, name |-> "POSTGRADUATE", value |-> "postgraduate"],
     field_of_study |-> "Commerce",
     skills |-> <<"sql", "cooking">>,
     interests |-> <<"finance", "music", "campaigns">>,
     location |-> "Chennai",
     preferred_locations |-> <<>>,
     experience_level |-> "intermediate",
     language_preference |-> "english"]

Ravi ==
    [name |-> "Ravi",
     age |-> 18,
     education_level |-> [enum |-> TRUE, name |-> "DIPLOMA", value |-> "diploma"],
     field_of_study |-> "Media",
     skills |-> <<"Java">>,
     interests |-> <<"media planning", "chess">>,
     location |-> "Navi Mumbai",
     preferred_locations |-> <<"pune ">>,
     experience_level |-> "Beginner",
     language_preference |-> "hindi"]

\* a profile with more matched skills and interests than the reasons list
Meera ==
    [name |-> "Meera",
     age |-> 22,
     education_level |-> [enum |-> TRUE, name |-> "HIGH_SCHOOL", value |-> "high_school"],
     field_of_study |-> "Arts",
     skills |-> <<"react", "node", "js">>,
     interests |-> <<"marketing", "social media", "campaigns">>,
     location |-> "Nowhere",
     preferred_locations |-> <<>>,
     experience_level |-> "advanced",
     language_preference |-> "english"]

\* the UserProfile objects of the requests
Profiles == {Asha, AshaToo, Ravi, Meera}

\* the session_id arguments: absent, empty, and the ids save_user_profile
\* gives the profiles
SessionIds == {SessionIdOf(p) : p \in Profiles}
SessionArgs == {None, ""} \cup SessionIds

\* the ids add_internship can have given out
InternshipIds == {"INT" \o Pad3(k) : k \in 1..(Len(SampleInternships) + MaxAdded)}

\* limit: int = 5
DefaultLimit == 5

\* every Internship get_all_internships can return within the bounds: the
\* samples under the ids of the seeding, the inputs under the ids that follow
PossibleInternships ==
    {Internship(InternshipRow(SampleInternships[k], k - 1)) :
        k \in 1..Len(SampleInternships)}
    \cup {Internship(InternshipRow(d, c)) :
            d \in InternshipInputs,
            c \in Len(SampleInternships)..(Len(SampleInternships) + MaxAdded - 1)}

\* Scored, evaluated once for each profile and internship
ScoredTable == [p \in Profiles, i \in PossibleInternships |-> Scored(p, i)]

\* the loop over all_internships, from index k on: the scored internships
RECURSIVE ScoreLoop(_, _, _, _)
ScoreLoop(user_profile, all_internships, applied_ids, k) ==
    IF k > Len(all_internships) THEN <<>>
    ELSE (IF Skipped(all_internships[k], applied_ids)
          THEN <<>>
          ELSE <<ScoredTable[user_profile, all_internships[k]]>>)
         \o ScoreLoop(user_profile, all_internships, applied_ids, k + 1)

\* an insertion that puts x ahead of the elements of its own match_score
RECURSIVE InsertDesc_Unstable(_, _)
InsertDesc_Unstable(sorted, x) ==
    IF Len(sorted) = 0 THEN <<x>>
    ELSE IF RLe(Head(sorted).match_score, x.match_score)
         THEN <<x>> \o sorted
    ELSE <<Head(sorted)>> \o InsertDesc_Unstable(Tail(sorted), x)

\* where x goes in a list sorted by match_score, descending: after every
\* element whose match_score is not below its own
RECURSIVE InsertDesc(_, _)
InsertDesc(sorted, x) ==
    IF Len(sorted) = 0 THEN <<x>>
    ELSE IF RLt(Head(sorted).match_score, x.match_score)
         THEN <<x>> \o sorted
    ELSE <<Head(sorted)>> \o InsertDesc(Tail(sorted), x)

\* recommendations.sort(key=lambda x: x.match_score, reverse=True): stable
RECURSIVE SortDesc(_)
SortDesc(items) ==
    IF Len(items) = 0 THEN <<>>
    ELSE InsertDesc(SortDesc(SubSeq(items, 1, Len(items) - 1)), items[Len(items)])

\* recommendations[:limit]
Truncate(items, limit) == Take(items, limit)

\* the recommendations list the loop leaves: one Recommendation for each
\* scored internship that is kept, in the order of the loop
Recommendations(kept) == [i \in 1..Len(kept) |-> Recommendation(kept[i])]

\* the list is sorted and sliced, and returned
Ranking(user_profile, session_id, limit, all_internships, applied_ids, scored, recommendations) ==
    [op |-> "get_recommendations",
     user_profile |-> user_profile,
     session_id |-> session_id,
     limit |-> limit,
     all_internships |-> all_internships,
     applied_ids |-> applied_ids,
     scored |-> scored,
     recommendations |-> recommendations,
     result |-> Truncate(SortDesc(recommendations), limit)]

\* the loop over all_internships, then the sort and the slice
RankingOf(user_profile, session_id, limit, all_internships, applied_ids, scored) ==
    Ranking(user_profile, session_id, limit, all_internships, applied_ids, scored,
            Recommendations(SelectSeq(scored, LAMBDA sc : sc.kept)))

\* the loop runs over all_internships with applied_ids
RankingIn(user_profile, session_id, limit, all_internships, applied_ids) ==
    RankingOf(user_profile, session_id, limit, all_internships, applied_ids,
              ScoreLoop(user_profile, all_internships, applied_ids, 1))

get_recommendations(table, apps, user_profile, session_id, limit) ==
    RankingIn(user_profile, session_id, limit, get_all_internships(table),
              AppliedIds(apps, session_id))

(***************************************************************************)
(* The store and its operations.                                           *)
(***************************************************************************)
\* the tables after SQLiteDatabase() on a fresh file: create_tables, then
\* load_sample_data adds the samples in order
RECURSIVE Seeded(_, _)
Seeded(table, k) ==
    IF k > Len(SampleInternships) THEN table
    ELSE Seeded(AddedTo(table, SampleInternships[k]), k + 1)

Init ==
    /\ internships = Seeded(<<>>, 1)
    /\ user_profiles = {}
    /\ applications = {}
    /\ ret = [op |-> "idle"]

\* no request is being served
Idle == ret.op = "idle"

\* db.add_internship(internship_data)
AddInternship(internship_data) ==
    /\ Idle
    /\ Len(internships) < Len(SampleInternships) + MaxAdded
    /\ internships' = AddedTo(internships, internship_data)
    /\ ret' = [op |-> "add_internship",
               value |-> get_internship_by_id(internships',
                                              "INT" \o Pad3(Len(internships) + 1))]
    /\ UNCHANGED <<user_profiles, applications>>

\* db.save_user_profile(profile_data)
SaveUserProfile(profile_data) ==
    /\ Idle
    /\ user_profiles' = SavedTo(user_profiles, profile_data)
    /\ ret' = [op |-> "save_user_profile", value |-> SessionIdOf(profile_data)]
    /\ UNCHANGED <<internships, applications>>

\* db.apply_to_internship(session_id, internship_id)
ApplyToInternship(session_id, internship_id) ==
    /\ Idle
    /\ IF ~HasInternship(internships, internship_id)
       THEN /\ ret' = [op |-> "apply_to_internship", error |-> "Internship not found"]
            /\ UNCHANGED <<internships, user_profiles, applications>>
       ELSE IF ~HasProfile(user_profiles, session_id)
       THEN /\ ret' = [op |-> "apply_to_internship", error |-> "User profile not found"]
            /\ UNCHANGED <<internships, user_profiles, applications>>
       ELSE /\ Cardinality(AppliedTo(applications, session_id, internship_id))
                   <= MaxApplications
            /\ applications' = AppliedTo(applications, session_id, internship_id)
            /\ ret' = [op |-> "apply_to_internship",
                       value |-> ApplicationRow(session_id, internship_id)]
            /\ UNCHANGED <<internships, user_profiles>>

\* recommendation_engine.get_recommendations(user_profile, session_id, limit)
GetRecommendations(user_profile, session_id, limit) ==
    /\ Idle
    /\ ret' = get_recommendations(internships, applications, user_profile,
                                  session_id, limit)
    /\ UNCHANGED <<internships, user_profiles, applications>>

\* POST /create-profile: the profile is saved and ranked under its session id
CreateProfile(user_profile) ==
    /\ Idle
    /\ user_profiles' = SavedTo(user_profiles, user_profile)
    /\ ret' = get_recommendations(internships, applications, user_profile,
                                  SessionIdOf(user_profile), DefaultLimit)
    /\ UNCHANGED <<internships, applications>>

\* the value is handed to the caller, and the next request can be served
Return ==
    /\ ~Idle
    /\ ret' = [op |-> "idle"]
    /\ UNCHANGED <<internships, user_profiles, applications>>

Next ==
    \/ \E d \in InternshipInputs : AddInternship(d)
    \/ \E p \in Profiles : SaveUserProfile(p)
    \/ \E s \in SessionIds, i \in InternshipIds : ApplyToInternship(s, i)
    \/ \E p \in Profiles, s \in SessionArgs, l \in 1..MaxLimit :
           GetRecommendations(p, s, l)
    \/ \E p \in Profiles : CreateProfile(p)
    \/ Return

Spec == Init /\ [][Next]_vars

(***************************************************************************)
(* The matchers called on their own, with arguments from bounded sets.     *)
(***************************************************************************)
\* longest skill list of a matcher call
MaxSkills == 2

\* all sequences over S of length at most n
RECURSIVE SeqsUpTo(_, _)
SeqsUpTo(S, n) ==
    IF n = 0 THEN {<<>>}
    ELSE LET shorter == SeqsUpTo(S, n - 1)
         IN  shorter \cup {Append(q, x) : q \in shorter, x \in S}

UserSkillWords == {"python", "react", "java", " Django ", "js"}
RequiredSkillWords == {"Python", "React", "JavaScript", "Java", "Django"}

UserSkillArgs == SeqsUpTo(UserSkillWords, MaxSkills)
RequiredSkillArgs ==
    SeqsUpTo(RequiredSkillWords, MaxSkills)
        \cup {<<"Python", "JavaScript", "React", "Database">>, <<"">>}

EducationWords ==
    {"high_school", "diploma", "undergraduate", "postgraduate",
     "Diploma", "UNDERGRADUATE", "graduate", ""}
UserEducationArgs == {Plain(w) : w \in EducationWords} \cup EducationLevel
RequiredEducationArgs == EducationWords

UserLocationArgs == {"Pune", " pune ", "Navi Mumbai", ""}
PreferredLocationArgs == {<<>>, <<"Mumbai">>, <<"pune ">>, <<"Delhi", "New Mumbai">>}
InternshipLocationArgs == {"Pune", "Mumbai", "mumbai ", "Delhi", "Anywhere", ""}

\* the call a matcher is about to serve
InitMatchers ==
    /\ internships = Seeded(<<>>, 1)
    /\ user_profiles = {}
    /\ applications = {}
    /\ \/ \E u \in UserSkillArgs, r \in RequiredSkillArgs :
             ret = [op |-> "call", method |-> "calculate_skill_match",
                    user_skills |-> u, required_skills |-> r]
       \/ \E u \in UserEducationArgs, r \in RequiredEducationArgs :
             ret = [op |-> "call", method |-> "calculate_education_match",
                    user_education |-> u, required_education |-> r]
       \/ \E u \in UserLocationArgs, p \in PreferredLocationArgs,
             i \in InternshipLocationArgs, o \in BOOLEAN :
             ret = [op |-> "call", method |-> "calculate_location_match",
                    user_location |-> u, preferred_locations |-> p,
                    internship_location |-> i, remote_option |-> o]

Calling(method) == ret.op = "call" /\ ret.method = method

SkillCall ==
    /\ Calling("calculate_skill_match")
    /\ ret' = [op |-> "calculate_skill_match",
               user_skills |-> ret.user_skills,
               required_skills |-> ret.required_skills,
               value |-> calculate_skill_match(ret.user_skills, ret.required_skills)]
    /\ UNCHANGED <<internships, user_profiles, applications>>

EducationCall ==
    /\ Calling("calculate_education_match")
    /\ ret' = [op |-> "calculate_education_match",
               user_education |-> ret.user_education,
               required_education |-> ret.required_education,
               value |-> calculate_education_match(ret.user_education,
                                                   ret.required_education)]
    /\ UNCHANGED <<internships, user_profiles, applications>>

LocationCall ==
    /\ Calling("calculate_location_match")
    /\ ret' = [op |-> "calculate_location_match",
               user_location |-> ret.user_location,
               preferred_locations |-> ret.preferred_locations,
               internship_location |-> ret.internship_location,
               remote_option |-> ret.remote_option,
               value |-> calculate_location_match(ret.user_location,
                                                  ret.preferred_locations,
                                                  ret.internship_location,
                                                  ret.remote_option)]
    /\ UNCHANGED <<internships, user_profiles, applications>>

NextMatchers == SkillCall \/ EducationCall \/ LocationCall

SpecMatchers == InitMatchers /\ [][NextMatchers]_vars

(***************************************************************************)
(* Properties of get_recommendations, checked under Spec.                  *)
(***************************************************************************)
Ranked == ret.op = "get_recommendations"

\* the ids of the internships of a list of scored entries or recommendations
IdsOf(items) == {items[k].internship.id : k \in 1..Len(items)}

\* the entry of the list for the internship id
EntryOf(items, id) ==
    items[CHOOSE k \in 1..Len(items) : items[k].internship.id = id]

\* the ids get_applications_by_user returns for the session id of the call
AppliedNow ==
    {a.internship_id : a \in get_applications_by_user(applications, ret.session_id)}

\* 0.4 * skill + 0.2 * education + 0.2 * location + 0.2 * interest, as n/d
WeightedSum(sc) ==
    LET tenth == Frac(1, 10)
    IN  RMul(tenth,
             RAdd(RAdd(RMul(Frac(4, 1), sc.skill_score),
                       RMul(Frac(2, 1), sc.education_score)),
                  RAdd(RMul(Frac(2, 1), sc.location_score),
                       RMul(Frac(2, 1), sc.interest_score))))

InUnit(x) == RLe(Zero, x) /\ RLe(x, One)

\* C1: the list get_recommendations returns holds no posting whose id is among
\* the applications get_applications_by_user returns for the session id of
\* the call.
C1_AppliedExcluded ==
    Ranked =>
        \A k \in 1..Len(ret.result) :
            ret.result[k].internship.id \notin AppliedNow

\* a ranking that left room (fewer results than the limit) and still lacks
\* an applied posting that scores above the threshold
C1_Witness ==
    /\ Ranked
    /\ Len(ret.result) < ret.limit
    /\ \E id \in AppliedNow :
           /\ HasInternship(internships, id)
           /\ RLt(Frac(3, 10),
                  Scored(ret.user_profile,
                         get_internship_by_id(internships, id)).final_score)

\* where the posting stands in the list get_all_internships returned
PosOf(id) ==
    CHOOSE k \in 1..Len(ret.all_internships) : ret.all_internships[k].id = id

\* x is ranked ahead of y: a higher match_score, or the same one and an
\* earlier place in get_all_internships
Ahead(x, y) ==
    \/ RLt(y.match_score, x.match_score)
    \/ /\ x.match_score = y.match_score
       /\ PosOf(x.internship.id) < PosOf(y.internship.id)

\* C2: for limit >= 1 the result has min(limit, number of kept candidates)
\* elements, all of them kept candidates, ordered by match_score descending
\* with equal scores in get_all_internships order, and every kept candidate
\* left out ranks behind every one returned.
C2_SortedStableTruncated ==
    (Ranked /\ ret.limit >= 1) =>
        LET res == ret.result
            cands == ret.recommendations
        IN  /\ Len(res) = (IF ret.limit < Len(cands) THEN ret.limit ELSE Len(cands))
            /\ \A k \in 1..Len(res) : \E c \in 1..Len(cands) : cands[c] = res[k]
            /\ \A j, k \in 1..Len(res) : j < k => Ahead(res[j], res[k])
            /\ \A c \in 1..Len(cands) :
                   cands[c].internship.id \notin IdsOf(res) =>
                       \A k \in 1..Len(res) : Ahead(res[k], cands[c])

\* a ranking cut by the limit where a candidate left out has the match_score
\* of one returned
C2_Witness ==
    /\ Ranked
    /\ Len(ret.result) = ret.limit
    /\ \E c \in 1..Len(ret.recommendations), k \in 1..Len(ret.result) :
           /\ ret.recommendations[c].internship.id \notin IdsOf(ret.result)
           /\ ret.recommendations[c].match_score = ret.result[k].match_score

\* C3: every result has a match_score in [0, 100] that is 100 times
\* 0.4*skill + 0.2*education + 0.2*location + 0.2*interest rounded to one
\* decimal place, the four scores each in [0, 1], also when the raw skill sum
\* exceeds the number of required skills.
C3_MatchScore ==
    Ranked =>
        \A k \in 1..Len(ret.result) :
            LET r == ret.result[k]
                sc == EntryOf(ret.scored, r.internship.id)
                exact == RMul(Frac(100, 1), WeightedSum(sc))
                tenths == RMul(Frac(10, 1), r.match_score)
                off == RAdd(r.match_score, RMul(Frac(-1, 1), exact))
            IN  /\ InUnit(sc.skill_score)
                /\ InUnit(sc.education_score)
                /\ InUnit(sc.location_score)
                /\ InUnit(sc.interest_score)
                /\ RLe(Zero, r.match_score)
                /\ RLe(r.match_score, Frac(100, 1))
                /\ tenths.d = 1
                /\ RLe(Frac(-1, 20), off)
                /\ RLe(off, Frac(1, 20))

\* a result whose raw skill sum exceeds the number of required skills
C3_Witness ==
    /\ Ranked
    /\ \E k \in 1..Len(ret.result) :
           LET sc == EntryOf(ret.scored, ret.result[k].internship.id)
           IN  RLt(Frac(Len(sc.internship.required_skills), 1), sc.skill_raw)

SkillMatched == ret.op = "calculate_skill_match"
EducationMatched == ret.op = "calculate_education_match"
LocationMatched == ret.op = "calculate_location_match"

\* the call of the scenario: skills python, react against the four required
\* skills of the first sample posting
ScenarioCall ==
    /\ SkillMatched
    /\ ret.user_skills = <<"python", "react">>
    /\ ret.required_skills = <<"Python", "JavaScript", "React", "Database">>

\* C5: in the scenario python and react each count an exact match of 1.0,
\* the raw sum is 2.0 and the skill score is 2.0 / 4 = 0.5.
C5_Claimed ==
    ScenarioCall =>
        /\ ret.value.steps[1].direct = One
        /\ ret.value.steps[2].direct = One
        /\ ret.value.match_score = Frac(2, 1)
        /\ ret.value.skill_score = Frac(1, 2)

\* C5, amended: in the scenario python and react each count an exact match of
\* 1.0, react counts a further 0.8 as a listed synonym of the javascript
\* group met by the required skill React, the raw sum is 2.8 and the skill
\* score is 2.8 / 4 = 0.7.
C5_Amended ==
    ScenarioCall =>
        /\ ret.value.steps[1].direct = One
        /\ ret.value.steps[1].synonym = Zero
        /\ ret.value.steps[2].direct = One
        /\ ret.value.steps[2].synonym = Frac(8, 10)
        /\ ret.value.match_score = Frac(28, 10)
        /\ ret.value.skill_score = Frac(7, 10)

C5_Witness == ScenarioCall /\ ret.value.matches = <<"Python", "React", "React">>

\* an entry of the synonym table: the group name with its listed synonyms
EntryWithName(g) == <<skill_synonyms[g].key>> \o skill_synonyms[g].synonyms

\* the user skill and some required skill, lowercased and trimmed, are both
\* in one entry of the table
ShareEntry(user_skill, required_skills) ==
    \E g \in 1..Len(skill_synonyms), j \in 1..Len(required_skills) :
        /\ InSeq(Norm(user_skill), EntryWithName(g))
        /\ InSeq(Norm(required_skills[j]), EntryWithName(g))

\* C6: a user skill that shares a synonym-table entry (the group name with
\* its synonyms) with a required skill adds a synonym contribution of 0.8,
\* whatever its direct or partial contribution.
C6_Claimed ==
    SkillMatched =>
        \A k \in 1..Len(ret.user_skills) :
            ShareEntry(ret.user_skills[k], ret.required_skills)
                => RLe(Frac(8, 10), ret.value.steps[k].synonym)

\* the level the claims give an education string, 0 when it is none of the four
ClaimedLevel(w) ==
    CASE Lower(w) = "high_school" -> 1
      [] Lower(w) = "diploma" -> 2
      [] Lower(w) = "undergraduate" -> 3
      [] Lower(w) = "postgraduate" -> 4
      [] OTHER -> 0

Recognized(w) == ClaimedLevel(w) > 0

\* the call was given plain strings
PlainEducationCall == EducationMatched /\ ~ret.user_education.enum

\* C8: with both strings among the four levels (high_school=1, diploma=2,
\* undergraduate=3, postgraduate=4) the score is 1.0 when the user level is
\* at least the required one, 0.7 when it is exactly one below, 0.3
\* otherwise; and no recognized user level that is at least as high scores
\* lower against the same requirement.
C8_EducationTiers ==
    (/\ PlainEducationCall
     /\ Recognized(ret.user_education.value)
     /\ Recognized(ret.required_education)) =>
        LET ul == ClaimedLevel(ret.user_education.value)
            rl == ClaimedLevel(ret.required_education)
        IN  /\ ret.value = (IF ul >= rl THEN One
                            ELSE IF ul = rl - 1 THEN Frac(7, 10)
                            ELSE Frac(3, 10))
            /\ \A w \in EducationWords :
                   (Recognized(w) /\ ClaimedLevel(w) >= ul) =>
                       RLe(ret.value,
                           calculate_education_match(Plain(w), ret.required_education))

\* diploma against undergraduate scores 0.7
C8_Witness ==
    /\ PlainEducationCall
    /\ ret.user_education.value = "diploma"
    /\ ret.required_education = "undergraduate"
    /\ ret.value = Frac(7, 10)

\* C9: when the user's or the posting's education string is none of the four
\* levels the score is 0.3.
C9_Claimed ==
    (/\ PlainEducationCall
     /\ \/ ~Recognized(ret.user_education.value)
        \/ ~Recognized(ret.required_education)) =>
        ret.value = Frac(3, 10)

\* C9, amended: when the user's or the posting's education string is none of
\* the four levels it counts as level 0 and the call still returns a score:
\* 1.0 whenever the posting's string is unrecognized; otherwise (only the
\* user's is) 0.7 against high_school and 0.3 against any higher level.
C9_Amended ==
    (/\ PlainEducationCall
     /\ \/ ~Recognized(ret.user_education.value)
        \/ ~Recognized(ret.required_education)) =>
        ret.value = (IF ~Recognized(ret.required_education) THEN One
                     ELSE IF ClaimedLevel(ret.required_education) = 1 THEN Frac(7, 10)
                     ELSE Frac(3, 10))

\* an unrecognized user string against a recognized requirement above
\* high_school
C9_Witness ==
    /\ PlainEducationCall
    /\ ~Recognized(ret.user_education.value)
    /\ ClaimedLevel(ret.required_education) > 1
    /\ ret.value = Frac(3, 10)

\* C10: the location score is fixed by the first rule that applies: remote
\* -> 1.0 whatever the location strings; posting location equal to the user
\* location (lowercased, trimmed) -> 1.0; posting location among the
\* preferred locations -> 0.9; posting location a substring of, or
\* containing, the user location or a preferred location -> 0.6; else 0.2.
C10_LocationRules ==
    LocationMatched =>
        LET il == Norm(ret.internship_location)
            ul == Norm(ret.user_location)
            pl == {Norm(ret.preferred_locations[k]) :
                      k \in 1..Len(ret.preferred_locations)}
        IN  /\ ret.value \in {One, Frac(9, 10), Frac(6, 10), Frac(2, 10)}
            /\ ret.value =
                   (IF ret.remote_option THEN One
                    ELSE IF il = ul THEN One
                    ELSE IF il \in pl THEN Frac(9, 10)
                    ELSE IF \E loc \in {ul} \cup pl :
                                Contains(loc, il) \/ Contains(il, loc)
                         THEN Frac(6, 10)
                    ELSE Frac(2, 10))

\* a remote posting scored 1.0 with an empty posting location and a user
\* location it does not equal
C10_Witness ==
    /\ LocationMatched
    /\ ret.remote_option
    /\ ret.internship_location = ""
    /\ Norm(ret.user_location) # ""
    /\ ret.value = One

(***************************************************************************)
(* Postings without required skills, checked under Spec.                   *)
(***************************************************************************)
\* the row of the posting was written by add_internship from data whose
\* required_skills list is empty
AddedWithoutSkills(id) ==
    \E k \in 1..Len(internships), d \in InternshipInputs :
        /\ internships[k].id = id
        /\ d.required_skills = <<>>
        /\ internships[k] = InternshipRow(d, k - 1)

\* C7: a posting added with an empty required_skills list, stored by
\* add_internship and fetched by get_all_internships, is scored by
\* get_recommendations with skill score 0.
C7_Claimed ==
    Ranked =>
        \A k \in 1..Len(ret.scored) :
            AddedWithoutSkills(ret.scored[k].internship.id)
                => ret.scored[k].skill_score = Zero

(***************************************************************************)
(* Properties of the reasons, checked under Spec.                          *)
(***************************************************************************)
StartsWith(s, prefix) ==
    Len(s) >= Len(prefix) /\ SubSeq(s, 1, Len(prefix)) = prefix

\* which of the five tests a reason text belongs to, 0 for any other text
ReasonKind(reason) ==
    IF StartsWith(reason, "Skills match: ") THEN 1
    ELSE IF reason = "Education requirement met" THEN 2
    ELSE IF reason \in {"Remote work available", "Location matches preference"} THEN 3
    ELSE IF StartsWith(reason, "Interests align: ") THEN 4
    ELSE IF reason = "Experience level perfect match" THEN 5
    ELSE 0

\* the first upto names, separated by ", "
RECURSIVE Listing(_, _)
Listing(names, upto) ==
    IF upto <= 1 THEN names[1]
    ELSE Listing(names, upto - 1) \o ", " \o names[upto]

\* the names a reason lists: the first most of them
Listed(names, most) ==
    Listing(names, IF Len(names) < most THEN Len(names) ELSE most)

\* the reasons hold the text, and it belongs to the test of that kind
HasReason(reasons, kind, text) ==
    \E i \in 1..Len(reasons) : reasons[i] = text /\ ReasonKind(text) = kind

\* the reasons hold no text of the kind
LacksKind(reasons, kind) ==
    \A i \in 1..Len(reasons) : ReasonKind(reasons[i]) # kind

\* the reasons hold the text when the trigger holds and nothing of its kind
\* when it does not
ReasonIff(reasons, kind, trigger, text) ==
    IF trigger THEN HasReason(reasons, kind, text) ELSE LacksKind(reasons, kind)

\* the reasons are the ones the scored entry calls for, in the fixed order
ReasonsFit(reasons, sc, user_profile) ==
    /\ \A i \in 1..Len(reasons) : ReasonKind(reasons[i]) \in 1..5
    /\ \A i, j \in 1..Len(reasons) :
           i < j => ReasonKind(reasons[i]) < ReasonKind(reasons[j])
    /\ ReasonIff(reasons, 1, Len(sc.skill_matches) > 0,
                 "Skills match: " \o Listed(sc.skill_matches, 3))
    /\ ReasonIff(reasons, 2, RLe(Frac(7, 10), sc.education_score),
                 "Education requirement met")
    /\ ReasonIff(reasons, 3, RLe(Frac(9, 10), sc.location_score),
                 IF sc.internship.remote_option
                 THEN "Remote work available"
                 ELSE "Location matches preference")
    /\ ReasonIff(reasons, 4, Len(sc.interest_matches) > 0,
                 "Interests align: " \o Listed(sc.interest_matches, 2))
    /\ ReasonIff(reasons, 5,
                 Lower(sc.internship.experience_required)
                     = Lower(user_profile.experience_level),
                 "Experience level perfect match")

\* C11: the match_reasons of every returned result hold, in the order
\* skills, education, location, interests, experience and each at most once,
\* exactly the reasons whose trigger holds: matched skills (the first 3
\* listed), education score >= 0.7, location score >= 0.9 (worded by
\* remote_option), matched interests (the first 2 listed), and
\* experience_required equal to experience_level without regard to case.
C11_ReasonsInOrder ==
    Ranked =>
        \A k \in 1..Len(ret.result) :
            ReasonsFit(ret.result[k].match_reasons,
                       EntryOf(ret.scored, ret.result[k].internship.id),
                       ret.user_profile)

\* a ranking for a user at "Nowhere" with a remote result that matched more
\* than 3 skills and lacks the education reason, and a result that matched
\* more than 2 interests
C11_Witness ==
    /\ Ranked
    /\ ret.user_profile.location = "Nowhere"
    /\ \E k \in 1..Len(ret.result) :
           LET sc == EntryOf(ret.scored, ret.result[k].internship.id)
           IN  /\ Len(sc.skill_matches) > 3
               /\ sc.internship.remote_option
               /\ sc.location_score = One
               /\ HasReason(ret.result[k].match_reasons, 3, "Remote work available")
               /\ LacksKind(ret.result[k].match_reasons, 2)
    /\ \E k \in 1..Len(ret.result) :
           Len(EntryOf(ret.scored, ret.result[k].internship.id).interest_matches) > 2

(***************************************************************************)
(* Further properties of the matchers, checked under SpecMatchers.         *)
(***************************************************************************)
\* the user skill equals a required skill once both are lowercased and trimmed
EqualsRequired(user_skill, required_skills) ==
    \E j \in 1..Len(required_skills) : Norm(required_skills[j]) = Norm(user_skill)

\* C12: a user skill that equals some required skill, both lowercased and
\* trimmed, gets 1.0 from the direct and partial step, wherever the equal
\* required skill stands in the list and whatever other required skills
\* contain it or are contained in it.
C12_Claimed ==
    SkillMatched =>
        \A k \in 1..Len(ret.user_skills) :
            EqualsRequired(ret.user_skills[k], ret.required_skills)
                => ret.value.steps[k].direct = One

(***************************************************************************)
(* Further properties of the ranking and the store, checked under Spec.    *)
(***************************************************************************)
\* the three tiers on the level of the profile's education_level member and
\* the level of the posting's requirement
ClaimedEducationScore(user_profile, internship) ==
    IF ClaimedLevel(user_profile.education_level.value)
           >= ClaimedLevel(internship.education_requirement)
    THEN One
    ELSE IF ClaimedLevel(user_profile.education_level.value)
                = ClaimedLevel(internship.education_requirement) - 1
    THEN Frac(7, 10)
    ELSE Frac(3, 10)

\* C13: the education score get_recommendations uses for a posting is the
\* three-tier rule on the hierarchy level of the profile's education_level
\* (high_school = 1 .. postgraduate = 4) and of the posting's requirement: a
\* profile at or above the requirement gets 1.0 and the reason "Education
\* requirement met", a diploma profile gets 0.7 against an undergraduate
\* posting.
C13_Claimed ==
    Ranked =>
        \A k \in 1..Len(ret.scored) :
            /\ ret.scored[k].education_score
                   = ClaimedEducationScore(ret.user_profile, ret.scored[k].internship)
            /\ ClaimedEducationScore(ret.user_profile, ret.scored[k].internship) = One
                   => InSeq("Education requirement met", ret.scored[k].match_reasons)

\* a step that returns the ranking of a profile under the session id
\* save_user_profile gives it, with postings left out as applied to
ExcludesForOwnId ==
    /\ ret'.op = "get_recommendations"
    /\ ret'.session_id = SessionIdOf(ret'.user_profile)
    /\ ret'.applied_ids # {}

\* C14: no step replaces a stored profile by a different one, and when a
\* ranking leaves out postings as applied to under the session id of its
\* profile, the profile stored under that id, whose applications they are,
\* is that same profile.
C14_Claimed ==
    [][/\ \A r \in user_profiles : r \in user_profiles'
       /\ ExcludesForOwnId =>
              \A r \in user_profiles :
                  r.session_id = ret'.session_id => r = ProfileRow(ret'.user_profile)]_vars

====
